---- MODULE Spec2Model ----
(***************************************************************************)
(* tune_control: the command-line tool that turns a tune request (a        *)
(* predefined tune index, a tone, or an inline melody string) into         *)
(* tune_control messages published on the tune_control topic.              *)
(*                                                                         *)
(* The model follows src/systemcmds/tune_control/tune_control.cpp:         *)
(* tune_control_main() is split at its observable steps (one getopt case,  *)
(* one get_next_tune() call, one publish, one usleep()), and               *)
(* publish_tune_control() is the operator of the same name.  The Tunes     *)
(* library (lib/tunes) and the uORB queue are not part of the source under *)
(* study; they are modelled from their documented contract.                *)
(***************************************************************************)
EXTENDS Integers, Naturals, Sequences, FiniteSets, TLC

(***************************************************************************)
(* Program constants.                                                      *)
(***************************************************************************)
MAX_NOTE_ITERATION == 50

\* The upper limit of the -f check, "value < 22000".
FREQUENCY_LIMIT == 22000

\* The upper limit of the -s check, "value < 100".
STRENGTH_LIMIT == 100

\* The queue depth handed to orb_advertise_queue().
ORB_QUEUE_SIZE == 3

\* The fixed pause of the libtest loop, usleep(500000).
LIBTEST_PAUSE == 500000

\* The errno value of "ret == -EINVAL" in libtest.
EINVAL == 22

\* tune_control_s::STRENGTH_NORMAL, the default strength of a request.
STRENGTH_NORMAL == 40

\* Tunes::get_default_tunes_size(): the predefined tunes are 1 .. size-1
\* (the usage text documents -t as 1 .. 21).
get_default_tunes_size == 22

\* Tunes::get_maximum_update_interval(), in microseconds.
get_maximum_update_interval == 100000

(***************************************************************************)
(* Bounds of the model.                                                    *)
(***************************************************************************)
\* The most options one command line carries.
MaxOpts == 2

\* The longest finite melody the compiler is asked to decode.
MaxLen == 52

\* The most invocations of the command one process lifetime is followed for.
MaxInvocations == 3

\* An event source that never reports exhaustion.
Endless == 0 - 1

\* No run of the program asks the compiler for more notes than this; the
\* guard only matters when the iteration bound of the loops is taken away.
StepCap == MaxLen + 3

(***************************************************************************)
(* Inputs.  An option argument is the long that strtol() returns for it.   *)
(***************************************************************************)
FArgs == {0, 1, 440, FREQUENCY_LIMIT - 1, FREQUENCY_LIMIT, 65536 + 440}
DArgs == {1000}
TArgs == {0, 1, get_default_tunes_size - 1, get_default_tunes_size, 256 + 1}
SArgs == {0, 1, STRENGTH_LIMIT - 1, STRENGTH_LIMIT, 256 + 44}

\* Melody strings, as sequences of characters; <<>> is the empty string,
\* whose first character is the terminating NUL.
MArgs == { <<"M", "F", "T">>, <<"X", "M">>, <<>> }

CommandWords == {"play", "libtest", "stop", "bogus"}

\* The lengths of the event sequences the compiler may hold.
SourceLens == {0, 1, 2, MAX_NOTE_ITERATION - 1, MAX_NOTE_ITERATION,
               MAX_NOTE_ITERATION + 1, MaxLen, Endless}

VARIABLES
    pc,               \* position in tune_control_main
    myoptind,         \* getopt's index of the next argv element
    nopts,            \* options consumed so far
    given,            \* the raw argument last given to each option ({} = none)
    last,             \* the option letter getopt returned last
    cmd,              \* the command word argv[myoptind], once read
    string_input,
    tune_string,
    tune_control,     \* the local tune_control_s
    note,             \* the locals frequency, duration, silence, strength
    exit_counter,
    ret,              \* the status tune_control_main returned
    tunes,            \* the local Tunes object (the melody compiler)
    tune_control_pub, \* the static publish handle
    orb_queue,        \* the topic's queue behind the handle
    orb_queue_size,   \* the depth the queue was advertised with (0 = none yet)
    orb_generation,   \* how many messages the topic has been handed
    advertised,       \* how many times orb_advertise_queue() was called
    hrt_time,         \* the clock hrt_absolute_time() reads
    trace,            \* the calls made so far: next, publish, usleep
    invocations       \* how many times tune_control_main has been entered

vars == << pc, myoptind, nopts, given, last, cmd, string_input, tune_string,
           tune_control, note, exit_counter, ret, tunes, tune_control_pub,
           orb_queue, orb_queue_size, orb_generation, advertised, hrt_time,
           trace, invocations >>

nullptr == "nullptr"
HANDLE == "tune_control_handle"
NoRet == "running"

(***************************************************************************)
(* Integer conversions of the option arguments.                            *)
(***************************************************************************)
CastU8(v) == v % 256

CastU16(v) == v % 65536

\* Every 32-bit quantity of the model lies in 0 .. 2^31 - 1, where the
\* conversion to uint32_t keeps the value.
CastU32(v) == IF v >= 0 THEN v ELSE (v + 2147483647) + 1

(***************************************************************************)
(* The conditions of the getopt switch and of the loops.                   *)
(***************************************************************************)
\* Mutation: the upper limit of the -f check is dropped.
FrequencyAccepted_noUpperLimit(value) == value > 0

FrequencyAccepted(value) == value > 0 /\ value < FREQUENCY_LIMIT

TuneIdAccepted(value) == value > 0 /\ value < get_default_tunes_size

StrengthAccepted(value) == value > 0 /\ value < STRENGTH_LIMIT

FirstChar(s) == IF Len(s) = 0 THEN "NUL" ELSE s[1]

\* Mutation: the check of the melody's first character is dropped.
MelodyMarker_anyString(s) == TRUE

MelodyMarker(s) == FirstChar(s) = "M"

\* Mutation: the loops lose their iteration check.
TooManyIterations_never(counter) == FALSE

TooManyIterations(counter) == counter > MAX_NOTE_ITERATION

(***************************************************************************)
(* The melody compiler (lib/tunes), from its contract: set_string() and    *)
(* set_control() load an event sequence, get_next_tune() yields its events *)
(* one per call and reports "no more events" once it is exhausted.         *)
(***************************************************************************)
NoteFrequencies == << 440, 0, FREQUENCY_LIMIT - 1 >>

NoteAt(pos, strength) ==
    [ frequency |-> NoteFrequencies[(pos % 3) + 1],
      duration  |-> 1000 * ((pos % 4) + 1),
      silence   |-> 100 * (pos % 2),
      strength  |-> strength ]

NoTunes == [ len |-> 0, pos |-> 0, strength |-> 0 ]

HasNext(t) == t.len = Endless \/ t.pos < t.len

get_next_tune(t) == IF HasNext(t) THEN 1 ELSE 0

(***************************************************************************)
(* The tune_control message and the log of calls.                          *)
(***************************************************************************)
ZeroControl ==
    [ timestamp |-> 0, tune_id |-> 0, frequency |-> 0, duration |-> 0,
      silence |-> 0, strength |-> 0, tune_override |-> FALSE ]

Call(op, ev, arg) == [ op |-> op, ev |-> ev, arg |-> arg ]

\* What a get_next_tune() call handed back: the note it wrote to its four
\* reference parameters when it returned > 0, nothing otherwise.
Yielded(t) ==
    IF get_next_tune(t) > 0
    THEN [ ZeroControl EXCEPT !.frequency = NoteAt(t.pos, t.strength).frequency,
                              !.duration = NoteAt(t.pos, t.strength).duration,
                              !.silence = NoteAt(t.pos, t.strength).silence,
                              !.strength = NoteAt(t.pos, t.strength).strength ]
    ELSE ZeroControl

NoGiven == [ f |-> {}, d |-> {}, t |-> {}, m |-> {}, s |-> {} ]

(***************************************************************************)
(* publish_tune_control(): stamps the message, creates the handle with a   *)
(* queue of three on the first call (the advertisement delivers the        *)
(* message), publishes through the handle on every later call.  The queue  *)
(* keeps the newest ORB_QUEUE_SIZE messages.                               *)
(***************************************************************************)
Enqueue(q, depth, msg) ==
    IF Len(q) < depth THEN Append(q, msg)
    ELSE Append(Tail(q), msg)

Stamped(msg) == [ msg EXCEPT !.timestamp = hrt_time ]

\* orb_advertise_queue(ORB_ID(tune_control), &msg, depth): creates the
\* handle and its queue and hands the topic the first message.
orb_advertise_queue(msg, depth) ==
    /\ tune_control_pub' = HANDLE
    /\ advertised' = advertised + 1
    /\ orb_queue_size' = depth
    /\ orb_queue' = Enqueue(orb_queue, depth, msg)
    /\ orb_generation' = orb_generation + 1

\* orb_publish(ORB_ID(tune_control), tune_control_pub, &msg).
orb_publish(msg) ==
    /\ orb_queue' = Enqueue(orb_queue, orb_queue_size, msg)
    /\ orb_generation' = orb_generation + 1
    /\ UNCHANGED << tune_control_pub, advertised, orb_queue_size >>

\* Mutation: the handle is not looked at, every call advertises anew.
publish_tune_control_alwaysAdvertises(msg) ==
    /\ tune_control' = Stamped(msg)
    /\ trace' = Append(trace, Call("publish", Stamped(msg), 0))
    /\ orb_advertise_queue(Stamped(msg), ORB_QUEUE_SIZE)

\* Mutation: the queue is advertised one slot short.
publish_tune_control_queueOfTwo(msg) ==
    /\ tune_control' = Stamped(msg)
    /\ trace' = Append(trace, Call("publish", Stamped(msg), 0))
    /\ IF tune_control_pub = nullptr
       THEN orb_advertise_queue(Stamped(msg), ORB_QUEUE_SIZE - 1)
       ELSE orb_publish(Stamped(msg))

publish_tune_control(msg) ==
    /\ tune_control' = Stamped(msg)
    /\ trace' = Append(trace, Call("publish", Stamped(msg), 0))
    /\ IF tune_control_pub = nullptr
       THEN orb_advertise_queue(Stamped(msg), ORB_QUEUE_SIZE)
       ELSE orb_publish(Stamped(msg))

(***************************************************************************)
(* Initial state: the process image is loaded, tune_control_main is        *)
(* entered and its locals are initialised (lines 115-124).                 *)
(***************************************************************************)
Locals ==
    /\ pc = "getopt"
    /\ myoptind = 1
    /\ nopts = 0
    /\ given = NoGiven
    /\ last = ""
    /\ cmd = ""
    /\ string_input = FALSE
    /\ tune_string = <<>>
    /\ tune_control = [ ZeroControl EXCEPT !.strength = STRENGTH_NORMAL ]
    /\ note = NoteAt(0, 0)
    /\ exit_counter = 0
    /\ ret = NoRet
    /\ tunes = NoTunes
    /\ trace = <<>>

Init ==
    /\ Locals
    /\ tune_control_pub = nullptr
    /\ orb_queue = <<>>
    /\ orb_queue_size = 0
    /\ orb_generation = 0
    /\ advertised = 0
    /\ hrt_time = 0
    /\ invocations = 1

(***************************************************************************)
(* The getopt loop (lines 126-187): one action per case of the switch.     *)
(* Each consumes the next option of the command line.                      *)
(***************************************************************************)
Consumed(letter, step) ==
    /\ last' = letter
    /\ myoptind' = myoptind + step
    /\ nopts' = nopts + 1

Return(status) ==
    /\ pc' = "done"
    /\ ret' = status

OptF ==
    /\ pc = "getopt"
    /\ nopts < MaxOpts
    /\ \E a \in FArgs :
         LET value == CastU16(a) IN
         /\ given' = [ given EXCEPT !.f = {a} ]
         /\ IF FrequencyAccepted(value)
            THEN /\ tune_control' = [ tune_control EXCEPT !.frequency = value ]
                 /\ UNCHANGED << pc, ret >>
            ELSE /\ Return(1)
                 /\ UNCHANGED tune_control
    /\ Consumed("f", 2)
    /\ UNCHANGED << cmd, string_input, tune_string, note, exit_counter, tunes,
                    tune_control_pub, orb_queue, orb_queue_size,
                    orb_generation, advertised, hrt_time, trace >>
    /\ UNCHANGED invocations

OptD ==
    /\ pc = "getopt"
    /\ nopts < MaxOpts
    /\ \E a \in DArgs :
         /\ given' = [ given EXCEPT !.d = {a} ]
         /\ tune_control' = [ tune_control EXCEPT !.duration = CastU32(a) ]
    /\ Consumed("d", 2)
    /\ UNCHANGED << pc, ret, cmd, string_input, tune_string, note,
                    exit_counter, tunes, tune_control_pub, orb_queue,
                    orb_queue_size, orb_generation, advertised, hrt_time,
                    trace >>
    /\ UNCHANGED invocations

OptT ==
    /\ pc = "getopt"
    /\ nopts < MaxOpts
    /\ \E a \in TArgs :
         LET value == CastU8(a) IN
         /\ given' = [ given EXCEPT !.t = {a} ]
         /\ IF TuneIdAccepted(value)
            THEN /\ tune_control' = [ tune_control EXCEPT !.tune_id = value ]
                 /\ UNCHANGED << pc, ret >>
            ELSE /\ Return(1)
                 /\ UNCHANGED tune_control
    /\ Consumed("t", 2)
    /\ UNCHANGED << cmd, string_input, tune_string, note, exit_counter, tunes,
                    tune_control_pub, orb_queue, orb_queue_size,
                    orb_generation, advertised, hrt_time, trace >>
    /\ UNCHANGED invocations

OptM ==
    /\ pc = "getopt"
    /\ nopts < MaxOpts
    /\ \E a \in MArgs :
         /\ given' = [ given EXCEPT !.m = {a} ]
         /\ string_input' = TRUE
         /\ tune_string' = a
         /\ IF MelodyMarker(a)
            THEN UNCHANGED << pc, ret >>
            ELSE Return(1)
    /\ Consumed("m", 2)
    /\ UNCHANGED << cmd, tune_control, note, exit_counter, tunes,
                    tune_control_pub, orb_queue, orb_queue_size,
                    orb_generation, advertised, hrt_time, trace >>
    /\ UNCHANGED invocations

OptS ==
    /\ pc = "getopt"
    /\ nopts < MaxOpts
    /\ \E a \in SArgs :
         LET value == CastU8(a) IN
         /\ given' = [ given EXCEPT !.s = {a} ]
         /\ IF StrengthAccepted(value)
            THEN tune_control' = [ tune_control EXCEPT !.strength = value ]
            ELSE tune_control' =
                     [ tune_control EXCEPT !.strength = STRENGTH_NORMAL ]
    /\ Consumed("s", 2)
    /\ UNCHANGED << pc, ret, cmd, string_input, tune_string, note,
                    exit_counter, tunes, tune_control_pub, orb_queue,
                    orb_queue_size, orb_generation, advertised, hrt_time,
                    trace >>
    /\ UNCHANGED invocations

\* An option letter outside "f:d:t:m:s:", or an option without its argument.
OptUnknown ==
    /\ pc = "getopt"
    /\ nopts < MaxOpts
    /\ Return(0 - 1)
    /\ Consumed("?", 1)
    /\ UNCHANGED << given, cmd, string_input, tune_string, tune_control, note,
                    exit_counter, tunes, tune_control_pub, orb_queue,
                    orb_queue_size, orb_generation, advertised, hrt_time,
                    trace >>
    /\ UNCHANGED invocations

(***************************************************************************)
(* After the options (lines 189-198, 230, 249, 261-264).                   *)
(***************************************************************************)
\* getopt returns EOF and myoptind >= argc: there is no command word.
NoCommand ==
    /\ pc = "getopt"
    /\ Return(1)
    /\ last' = "EOF"
    /\ UNCHANGED << myoptind, nopts, given, cmd, string_input, tune_string,
                    tune_control, note, exit_counter, tunes, tune_control_pub,
                    orb_queue, orb_queue_size, orb_generation, advertised,
                    hrt_time, trace >>
    /\ UNCHANGED invocations

Branch(word) ==
    IF word = "play" THEN (IF string_input THEN "play_string" ELSE "play_tune")
    ELSE IF word = "libtest" THEN "libtest"
    ELSE IF word = "stop" THEN "stop"
    ELSE "usage"

\* getopt returns EOF and argv[myoptind] is the command word.
Command ==
    /\ pc = "getopt"
    /\ \E word \in CommandWords :
         /\ cmd' = word
         /\ IF Branch(word) = "usage"
            THEN Return(1)
            ELSE /\ pc' = Branch(word)
                 /\ UNCHANGED ret
    /\ last' = "EOF"
    /\ UNCHANGED << myoptind, nopts, given, string_input, tune_string,
                    tune_control, note, exit_counter, tunes, tune_control_pub,
                    orb_queue, orb_queue_size, orb_generation, advertised,
                    hrt_time, trace >>
    /\ UNCHANGED invocations

(***************************************************************************)
(* play -m (lines 199-219).                                                *)
(***************************************************************************)
\* tunes.set_string(tune_string, tune_control.strength): the compiler holds
\* the melody's event sequence, of any of the lengths of SourceLens.
PlaySetString ==
    /\ pc = "play_string"
    /\ \E n \in SourceLens :
         tunes' = [ len |-> n, pos |-> 0, strength |-> tune_control.strength ]
    /\ pc' = "play_next"
    /\ UNCHANGED << myoptind, nopts, given, last, cmd, string_input,
                    tune_string, tune_control, note, exit_counter, ret,
                    tune_control_pub, orb_queue, orb_queue_size,
                    orb_generation, advertised, hrt_time, trace >>
    /\ UNCHANGED invocations

\* The loop condition: tunes.get_next_tune(...) > 0.
PlayNext ==
    /\ pc = "play_next"
    /\ tunes.pos < StepCap
    /\ trace' = Append(trace, Call("next", Yielded(tunes), get_next_tune(tunes)))
    /\ IF get_next_tune(tunes) > 0
       THEN /\ note' = NoteAt(tunes.pos, tunes.strength)
            /\ tunes' = [ tunes EXCEPT !.pos = tunes.pos + 1 ]
            /\ pc' = "play_publish"
            /\ UNCHANGED ret
       ELSE /\ Return(0)
            /\ UNCHANGED << note, tunes >>
    /\ UNCHANGED << myoptind, nopts, given, last, cmd, string_input,
                    tune_string, tune_control, exit_counter, tune_control_pub,
                    orb_queue, orb_queue_size, orb_generation, advertised,
                    hrt_time >>
    /\ UNCHANGED invocations

\* Mutation: the note message keeps the tune id that -t set.
NoteMessage_keepsTuneId ==
    [ tune_control EXCEPT !.frequency = CastU16(note.frequency),
                          !.duration = CastU32(note.duration),
                          !.silence = CastU32(note.silence),
                          !.strength = CastU8(note.strength) ]

NoteMessage ==
    [ tune_control EXCEPT !.tune_id = 0,
                          !.frequency = CastU16(note.frequency),
                          !.duration = CastU32(note.duration),
                          !.silence = CastU32(note.silence),
                          !.strength = CastU8(note.strength) ]

PlayPublish ==
    /\ pc = "play_publish"
    /\ publish_tune_control(NoteMessage)
    /\ pc' = "play_usleep"
    /\ UNCHANGED << myoptind, nopts, given, last, cmd, string_input,
                    tune_string, note, exit_counter, ret, tunes, hrt_time >>
    /\ UNCHANGED invocations

\* Mutation: the pause leaves out the silence after the note.
NotePause_durationOnly(n) == CastU32(n.duration)

\* The argument of usleep(duration + silence), an unsigned sum.
NotePause(n) == CastU32(n.duration + n.silence)

\* usleep(duration + silence); exit_counter++; the iteration check.
PlayUsleep ==
    /\ pc = "play_usleep"
    /\ trace' = Append(trace, Call("usleep", ZeroControl, NotePause(note)))
    /\ hrt_time' = hrt_time + NotePause(note)
    /\ exit_counter' = exit_counter + 1
    /\ IF TooManyIterations(exit_counter + 1)
       THEN Return(0)
       ELSE /\ pc' = "play_next"
            /\ UNCHANGED ret
    /\ UNCHANGED << myoptind, nopts, given, last, cmd, string_input,
                    tune_string, tune_control, note, tunes, tune_control_pub,
                    orb_queue, orb_queue_size, orb_generation, advertised >>
    /\ UNCHANGED invocations

(***************************************************************************)
(* play without -m (lines 221-228).                                        *)
(***************************************************************************)
\* Mutation: the default tune 1 is not filled in.
TuneMessage_noDefault == tune_control

\* Mutation: the default tune 1 is forced whatever -t gave.
TuneMessage_alwaysFirst == [ tune_control EXCEPT !.tune_id = 1 ]

TuneMessage ==
    IF tune_control.tune_id = 0
    THEN [ tune_control EXCEPT !.tune_id = 1 ]
    ELSE tune_control

PlayTune ==
    /\ pc = "play_tune"
    /\ publish_tune_control(TuneMessage)
    /\ Return(0)
    /\ UNCHANGED << myoptind, nopts, given, last, cmd, string_input,
                    tune_string, note, exit_counter, tunes, hrt_time >>
    /\ UNCHANGED invocations

(***************************************************************************)
(* libtest (lines 230-247).                                                *)
(***************************************************************************)
\* tunes.set_control(tune_control); an unrecognised tune id is only warned
\* about, and the loop runs over whatever the compiler then holds.
LibtestSetControl ==
    /\ pc = "libtest"
    /\ \E n \in SourceLens :
         tunes' = [ len |-> n, pos |-> 0, strength |-> tune_control.strength ]
    /\ \E r \in {0, 0 - EINVAL} :
         trace' = Append(trace, Call("set_control", ZeroControl, r))
    /\ pc' = "libtest_next"
    /\ UNCHANGED << myoptind, nopts, given, last, cmd, string_input,
                    tune_string, tune_control, note, exit_counter, ret,
                    tune_control_pub, orb_queue, orb_queue_size,
                    orb_generation, advertised, hrt_time >>
    /\ UNCHANGED invocations

LibtestNext ==
    /\ pc = "libtest_next"
    /\ tunes.pos < StepCap
    /\ trace' = Append(trace, Call("next", Yielded(tunes), get_next_tune(tunes)))
    /\ IF get_next_tune(tunes) > 0
       THEN /\ note' = NoteAt(tunes.pos, tunes.strength)
            /\ tunes' = [ tunes EXCEPT !.pos = tunes.pos + 1 ]
            /\ pc' = "libtest_usleep"
            /\ UNCHANGED ret
       ELSE /\ Return(0)
            /\ UNCHANGED << note, tunes >>
    /\ UNCHANGED << myoptind, nopts, given, last, cmd, string_input,
                    tune_string, tune_control, exit_counter, tune_control_pub,
                    orb_queue, orb_queue_size, orb_generation, advertised,
                    hrt_time >>
    /\ UNCHANGED invocations

LibtestUsleep ==
    /\ pc = "libtest_usleep"
    /\ trace' = Append(trace, Call("usleep", ZeroControl, LIBTEST_PAUSE))
    /\ hrt_time' = hrt_time + LIBTEST_PAUSE
    /\ exit_counter' = exit_counter + 1
    /\ IF TooManyIterations(exit_counter + 1)
       THEN Return(0)
       ELSE /\ pc' = "libtest_next"
            /\ UNCHANGED ret
    /\ UNCHANGED << myoptind, nopts, given, last, cmd, string_input,
                    tune_string, tune_control, note, tunes, tune_control_pub,
                    orb_queue, orb_queue_size, orb_generation, advertised >>
    /\ UNCHANGED invocations

(***************************************************************************)
(* stop (lines 249-259).                                                   *)
(***************************************************************************)
\* Mutation: stop puts the default strength back.
StopMessage_defaultStrength ==
    [ tune_control EXCEPT !.tune_id = 0,
                          !.frequency = 0,
                          !.duration = 0,
                          !.silence = 0,
                          !.strength = STRENGTH_NORMAL,
                          !.tune_override = TRUE ]

\* Mutation: stop forgets the override flag.
StopMessage_noOverride ==
    [ tune_control EXCEPT !.tune_id = 0,
                          !.frequency = 0,
                          !.duration = 0,
                          !.silence = 0 ]

\* Mutation: stop forgets to clear the frequency.
StopMessage_keepsFrequency ==
    [ tune_control EXCEPT !.tune_id = 0,
                          !.duration = 0,
                          !.silence = 0,
                          !.tune_override = TRUE ]

StopMessage ==
    [ tune_control EXCEPT !.tune_id = 0,
                          !.frequency = 0,
                          !.duration = 0,
                          !.silence = 0,
                          !.tune_override = TRUE ]

StopPublish ==
    /\ pc = "stop"
    /\ publish_tune_control(StopMessage)
    /\ pc' = "stop_usleep"
    /\ UNCHANGED << myoptind, nopts, given, last, cmd, string_input,
                    tune_string, note, exit_counter, ret, tunes, hrt_time >>
    /\ UNCHANGED invocations

StopUsleep ==
    /\ pc = "stop_usleep"
    /\ trace' = Append(trace, Call("usleep", ZeroControl,
                                   get_maximum_update_interval))
    /\ hrt_time' = hrt_time + get_maximum_update_interval
    /\ Return(0)
    /\ UNCHANGED << myoptind, nopts, given, last, cmd, string_input,
                    tune_string, tune_control, note, exit_counter, tunes,
                    tune_control_pub, orb_queue, orb_queue_size,
                    orb_generation, advertised >>
    /\ UNCHANGED invocations

Next ==
    \/ OptF
    \/ OptD
    \/ OptT
    \/ OptM
    \/ OptS
    \/ OptUnknown
    \/ NoCommand
    \/ Command
    \/ PlaySetString
    \/ PlayNext
    \/ PlayPublish
    \/ PlayUsleep
    \/ PlayTune
    \/ LibtestSetControl
    \/ LibtestNext
    \/ LibtestUsleep
    \/ StopPublish
    \/ StopUsleep

Spec == Init /\ [][Next]_vars

\* The program runs on: every call it makes returns, so a step that can be
\* taken is taken.
FairSpec == Spec /\ WF_vars(Next)

(***************************************************************************)
(* A series of invocations in one process.  tune_control_pub is static     *)
(* (line 58): it, the topic behind it and the clock outlive a return of    *)
(* tune_control_main; the locals are initialised anew at every entry       *)
(* (lines 115-124).  The series is followed over a narrower set of command *)
(* lines: play and stop, with -t and -m, and melodies of at most two       *)
(* events.                                                                 *)
(***************************************************************************)
Reinvoke ==
    /\ pc = "done"
    /\ invocations < MaxInvocations
    /\ invocations' = invocations + 1
    /\ pc' = "getopt"
    /\ myoptind' = 1
    /\ nopts' = 0
    /\ given' = NoGiven
    /\ last' = ""
    /\ cmd' = ""
    /\ string_input' = FALSE
    /\ tune_string' = <<>>
    /\ tune_control' = [ ZeroControl EXCEPT !.strength = STRENGTH_NORMAL ]
    /\ note' = NoteAt(0, 0)
    /\ exit_counter' = 0
    /\ ret' = NoRet
    /\ tunes' = NoTunes
    /\ UNCHANGED << tune_control_pub, orb_queue, orb_queue_size,
                    orb_generation, advertised, hrt_time, trace >>

SeriesInputs ==
    /\ given.t \subseteq {0, 1, get_default_tunes_size - 1}
    /\ given.m \subseteq { <<"M", "F", "T">> }
    /\ cmd \in {"", "play", "stop"}
    /\ tunes.len \in {0, 1, 2}

SeriesOptT == OptT /\ SeriesInputs'

SeriesOptM == OptM /\ SeriesInputs'

SeriesCommand == Command /\ SeriesInputs'

SeriesSetString == PlaySetString /\ SeriesInputs'

NextSeries ==
    \/ SeriesOptT
    \/ SeriesOptM
    \/ NoCommand
    \/ SeriesCommand
    \/ SeriesSetString
    \/ PlayNext
    \/ PlayPublish
    \/ PlayUsleep
    \/ PlayTune
    \/ StopPublish
    \/ StopUsleep
    \/ Reinvoke

SpecSeries == Init /\ [][NextSeries]_vars

(***************************************************************************)
(* Observations on the log of calls.                                       *)
(***************************************************************************)
IsPublish(c) == c.op = "publish"

IsUsleep(c) == c.op = "usleep"

IsNext(c) == c.op = "next"

Published == SelectSeq(trace, IsPublish)

Min(a, b) == IF a < b THEN a ELSE b

Done == pc = "done"

NotationPlay == cmd = "play" /\ string_input

TunePlay == cmd = "play" /\ ~string_input

\* The four note fields of a message.
SameNote(a, b) ==
    /\ a.frequency = b.frequency
    /\ a.duration = b.duration
    /\ a.silence = b.silence
    /\ a.strength = b.strength

(***************************************************************************)
(* C1: play -m on a finite event sequence publishes at most                *)
(* min(len(sequence), MAX_NOTE_ITERATION) events.                          *)
(* The loop leaves only once exit_counter > MAX_NOTE_ITERATION, after the  *)
(* publish of that iteration: a sequence of 51 events is published whole.  *)
(***************************************************************************)
C1_AtMostFiftyEvents ==
    (NotationPlay /\ tunes.len # Endless)
        => Len(Published) <= Min(tunes.len, MAX_NOTE_ITERATION)

(***************************************************************************)
(* C2: stop publishes exactly one event, with frequency, duration,         *)
(* silence and tune_id zero and the override flag set, whatever -f, -d and *)
(* -t gave; the publish comes first, one wait of                           *)
(* get_maximum_update_interval() follows, and the command returns.         *)
(***************************************************************************)
StopEvent(e) ==
    /\ e.frequency = 0
    /\ e.duration = 0
    /\ e.silence = 0
    /\ e.tune_id = 0
    /\ e.tune_override = TRUE

C2_StopOneOverrideThenWait ==
    /\ pc = "stop_usleep" =>
          /\ Len(trace) = 1
          /\ IsPublish(trace[1])
          /\ StopEvent(trace[1].ev)
    /\ (Done /\ cmd = "stop") =>
          /\ Len(trace) = 2
          /\ IsPublish(trace[1])
          /\ StopEvent(trace[1].ev)
          /\ IsUsleep(trace[2])
          /\ trace[2].arg = get_maximum_update_interval
          /\ orb_queue = << trace[1].ev >>
          /\ ret = 0

C2_Witness ==
    /\ Done
    /\ cmd = "stop"
    /\ given.f = {440}
    /\ given.t = {get_default_tunes_size - 1}
    /\ Len(trace) = 2

(***************************************************************************)
(* C3: when request validation fails (the -t or -f value it tests is       *)
(* out of range, the -m text does not begin with 'M', the option is        *)
(* unknown, the command word is missing or unknown), the invocation        *)
(* returns a non-zero status, nothing is published and the publish handle  *)
(* is as it was on entry.                                                  *)
(***************************************************************************)
RequestInvalid ==
    \/ last = "f" /\ \E a \in given.f : ~(0 < a % 65536 /\ a % 65536 < 22000)
    \/ last = "t" /\ \E a \in given.t :
                        ~(0 < a % 256 /\ a % 256 < get_default_tunes_size)
    \/ last = "m" /\ \E a \in given.m : a = <<>> \/ Head(a) # "M"
    \/ last = "?"
    \/ last = "EOF" /\ cmd \notin {"play", "libtest", "stop"}

C3_InvalidRequestTouchesNothing ==
    RequestInvalid =>
        /\ Done
        /\ ret \in {1, 0 - 1}
        /\ trace = <<>>
        /\ orb_queue = <<>>
        /\ tune_control_pub = nullptr
        /\ advertised = 0

\* play -s 99 -m "XM": a bad melody after another option, rejected.
C3_Witness ==
    /\ Done
    /\ last = "m"
    /\ given.m = { <<"X", "M">> }
    /\ given.s = {STRENGTH_LIMIT - 1}
    /\ ret = 1

(***************************************************************************)
(* C4: in notation playback the events are published in the order          *)
(* get_next_tune() yields them: every publish directly follows the call    *)
(* that yielded its note, and is directly followed by exactly one wait of  *)
(* that event's duration + silence, before the next call and the next      *)
(* publish; the last published event has its wait too.                     *)
(***************************************************************************)
C4_PublishThenPause ==
    NotationPlay =>
        /\ \A i \in 1 .. Len(trace) :
             /\ IsNext(trace[i]) =>
                   /\ i % 3 = 1
                   /\ (i < Len(trace)) => trace[i].arg > 0
                   /\ (i = Len(trace) /\ trace[i].arg > 0)
                          => pc = "play_publish"
             /\ IsPublish(trace[i]) =>
                   /\ i % 3 = 2
                   /\ IsNext(trace[i - 1])
                   /\ SameNote(trace[i].ev, trace[i - 1].ev)
                   /\ trace[i].ev.tune_id = 0
                   /\ (i = Len(trace)) => pc = "play_usleep"
             /\ IsUsleep(trace[i]) =>
                   /\ i % 3 = 0
                   /\ IsPublish(trace[i - 1])
                   /\ trace[i].arg = trace[i - 1].ev.duration
                                         + trace[i - 1].ev.silence
        /\ Done => (Len(trace) = 0 \/ ~IsPublish(trace[Len(trace)]))

\* A melody played to its end: the last publish has had its wait and the
\* compiler has then reported exhaustion.
C4_Witness ==
    /\ NotationPlay
    /\ Done
    /\ tunes.len = 2
    /\ Len(trace) = 7
    /\ IsUsleep(trace[6])
    /\ trace[6].arg = 2100

(***************************************************************************)
(* C5: play without -m and with a valid index i given to -t publishes      *)
(* exactly one event, with tune_id = i, and returns 0 without any wait and *)
(* without asking the compiler for a note.                                 *)
(***************************************************************************)
C5_PredefinedPlaysOnce ==
    (Done /\ TunePlay) =>
        \A i \in given.t :
            (0 < i /\ i < get_default_tunes_size) =>
                /\ Len(trace) = 1
                /\ IsPublish(trace[1])
                /\ trace[1].ev.tune_id = i
                /\ hrt_time = 0
                /\ tunes = NoTunes
                /\ ret = 0

C5_Witness ==
    /\ Done
    /\ TunePlay
    /\ given.t = {get_default_tunes_size - 1}
    /\ Len(trace) = 1
    /\ trace[1].ev.tune_id = get_default_tunes_size - 1

(***************************************************************************)
(* C6: notation playback always terminates and returns 0, for every event  *)
(* source, one that never reports exhaustion included.                     *)
(***************************************************************************)
C6_PlaybackTerminates == (pc = "play_string") ~> (Done /\ ret = 0)

\* An endless source cut off by the iteration check.
C6_Witness ==
    /\ NotationPlay
    /\ Done
    /\ tunes.len = Endless
    /\ exit_counter > MAX_NOTE_ITERATION
    /\ ret = 0

(***************************************************************************)
(* C7: a -t value is accepted if and only if 0 < index < table size; 0,    *)
(* the table size and every larger value, those above 255 included, are    *)
(* rejected.  The range test sees the value cut to 8 bits: 257 is taken    *)
(* as 1.                                                                   *)
(***************************************************************************)
C7_TuneIdAcceptedIffInRange ==
    last = "t" =>
        \A a \in given.t :
            (pc = "getopt") <=> (0 < a /\ a < get_default_tunes_size)

(***************************************************************************)
(* C8: a -f value is accepted if and only if 0 < f < 22000; 0 and every    *)
(* f >= 22000, those above 65535 included, are rejected.  The range test   *)
(* sees the value cut to 16 bits: 65976 is taken as 440.                   *)
(***************************************************************************)
C8_FrequencyAcceptedIffInRange ==
    last = "f" =>
        \A a \in given.f : (pc = "getopt") <=> (0 < a /\ a < 22000)

(***************************************************************************)
(* C9: the strength of the request is s when 0 < s < 100 and the default   *)
(* 40 for every other s, those above 255 included, and 40 when -s is not   *)
(* given.  The range test sees the value cut to 8 bits: 300 is taken as    *)
(* 44.                                                                     *)
(***************************************************************************)
C9_StrengthOrDefault ==
    pc = "getopt" =>
        /\ given.s = {} => tune_control.strength = 40
        /\ \A s \in given.s :
             tune_control.strength = (IF 0 < s /\ s < 100 THEN s ELSE 40)

(***************************************************************************)
(* C10: every event published, by play -t, play -m or stop, carries a      *)
(* frequency strictly below 22000.                                         *)
(***************************************************************************)
C10_PublishedFrequencyBelowLimit ==
    /\ \A i \in 1 .. Len(trace) :
          IsPublish(trace[i]) => trace[i].ev.frequency < 22000
    /\ \A i \in 1 .. Len(orb_queue) : orb_queue[i].frequency < 22000

\* A tone at the highest accepted frequency, published by play -f 21999.
C10_Witness ==
    /\ Done
    /\ TunePlay
    /\ given.f = {21999}
    /\ Len(trace) = 1
    /\ trace[1].ev.frequency = 21999

(***************************************************************************)
(* C11: over any sequence of publish_tune_control calls in one process the *)
(* handle is created exactly once, by the first call, with a queue of      *)
(* depth 3; later calls reuse it; every call, the first included, hands    *)
(* its event to the topic exactly once.                                    *)
(***************************************************************************)
C11_HandleCreatedOnce ==
    /\ (Len(Published) = 0) =>
          /\ tune_control_pub = nullptr
          /\ advertised = 0
          /\ orb_queue_size = 0
    /\ (Len(Published) > 0) =>
          /\ tune_control_pub = HANDLE
          /\ advertised = 1
          /\ orb_queue_size = 3
    /\ orb_generation = Len(Published)
    /\ Len(orb_queue) > 0 =>
          orb_queue[Len(orb_queue)] = Published[Len(Published)].ev

\* Five calls over three invocations, one handle.
C11_Witness ==
    /\ invocations = 3
    /\ Len(Published) = 5
    /\ advertised = 1
    /\ orb_generation = 5

(***************************************************************************)
(* C12: the event stop publishes has every numeric field zero, strength    *)
(* included, whatever -s, -f, -d or -t gave.  stop clears tune_id,         *)
(* frequency, duration and silence and leaves the strength of the request. *)
(***************************************************************************)
C12_StopAllFieldsZero ==
    (cmd = "stop" /\ Len(Published) = 1) =>
        /\ Published[1].ev.tune_id = 0
        /\ Published[1].ev.frequency = 0
        /\ Published[1].ev.duration = 0
        /\ Published[1].ev.silence = 0
        /\ Published[1].ev.strength = 0

\* C12 as amended: tune_id, frequency, duration and silence are zero; the
\* strength is the strength of the request: what -s set, else the default.
C12_StopZeroedButStrength ==
    (cmd = "stop" /\ Len(Published) = 1) =>
        /\ Published[1].ev.tune_id = 0
        /\ Published[1].ev.frequency = 0
        /\ Published[1].ev.duration = 0
        /\ Published[1].ev.silence = 0
        /\ given.s = {} => Published[1].ev.strength = 40
        /\ \A v \in given.s :
             Published[1].ev.strength =
                 (IF 0 < v % 256 /\ v % 256 < 100 THEN v % 256 ELSE 40)

C12_Witness ==
    /\ Done
    /\ cmd = "stop"
    /\ given.s = {STRENGTH_LIMIT - 1}
    /\ given.f = {440}
    /\ Len(Published) = 1
    /\ Published[1].ev.strength = STRENGTH_LIMIT - 1

(***************************************************************************)
(* C13: the two playback protocols never mix.  Every event of notation     *)
(* playback has tune_id = 0 and the frequency, duration, silence and       *)
(* strength the compiler returned for that note, also when a valid -t was  *)
(* given; predefined playback publishes the index and never a note event:  *)
(* it asks the compiler for nothing and publishes once.                    *)
(***************************************************************************)
C13_ProtocolsNeverMix ==
    /\ NotationPlay =>
          \A i \in 1 .. Len(trace) :
              IsPublish(trace[i]) =>
                  /\ trace[i].ev.tune_id = 0
                  /\ i > 1
                  /\ IsNext(trace[i - 1])
                  /\ trace[i - 1].arg > 0
                  /\ SameNote(trace[i].ev, trace[i - 1].ev)
    /\ TunePlay =>
          /\ Len(Published) <= 1
          /\ \A i \in 1 .. Len(trace) :
                /\ ~IsNext(trace[i])
                /\ IsPublish(trace[i]) =>
                      /\ trace[i].ev.tune_id > 0
                      /\ trace[i].ev.silence = 0
                      /\ \A t \in given.t : trace[i].ev.tune_id = t % 256

\* play -t 21 -m "MFT" over a melody of two notes.
C13_Witness ==
    /\ Done
    /\ NotationPlay
    /\ given.t = {get_default_tunes_size - 1}
    /\ Len(Published) = 2
    /\ Published[2].ev.tune_id = 0
    /\ Published[2].ev.duration = 2000

(***************************************************************************)
(* C14: with the topic's queue a FIFO of depth 3 and nothing read from it, *)
(* the three events of play (predefined tune), stop, play (predefined      *)
(* tune), invoked back to back, are all in the queue, in the order they    *)
(* were published.                                                         *)
(***************************************************************************)
TuneEvent(e) == e.tune_id > 0 /\ ~e.tune_override

PlayStopPlay ==
    /\ Len(Published) = 3
    /\ TuneEvent(Published[1].ev)
    /\ StopEvent(Published[2].ev)
    /\ TuneEvent(Published[3].ev)

C14_TripletFitsQueue ==
    PlayStopPlay =>
        orb_queue = << Published[1].ev, Published[2].ev, Published[3].ev >>

\* play -t 1, stop, play -t 21, each returned.
C14_Witness ==
    /\ PlayStopPlay
    /\ invocations = 3
    /\ Done
    /\ Published[1].ev.tune_id = 1
    /\ Published[3].ev.tune_id = get_default_tunes_size - 1
    /\ Len(orb_queue) = 3

(***************************************************************************)
(* C15: on the play path without -m the published tune_id is never 0: it   *)
(* is the valid index -t gave last, and 1 when no -t was given, also when  *)
(* only a tone was asked for with -f and -d, whose frequency and duration  *)
(* the same event carries unchanged.                                       *)
(***************************************************************************)
C15_TuneIdNeverZero ==
    (TunePlay /\ Len(Published) > 0) =>
        LET e == Published[1].ev IN
        /\ e.tune_id # 0
        /\ given.t = {} => e.tune_id = 1
        /\ \A t \in given.t :
             (0 < t /\ t < get_default_tunes_size) => e.tune_id = t
        /\ given.f = {} => e.frequency = 0
        /\ \A f \in given.f : (0 < f /\ f < 22000) => e.frequency = f
        /\ given.d = {} => e.duration = 0
        /\ \A d \in given.d : e.duration = d

\* play -f 440 -d 1000: a tone, sent as tune 1.
C15_Witness ==
    /\ Done
    /\ TunePlay
    /\ given.t = {}
    /\ given.f = {440}
    /\ given.d = {1000}
    /\ Len(Published) = 1
    /\ Published[1].ev.tune_id = 1
    /\ Published[1].ev.frequency = 440

(***************************************************************************)
(* C16: an event has the override flag set if and only if stop published   *)
(* it; every event of predefined or notation play has the flag clear.      *)
(***************************************************************************)
C16_OverrideOnlyFromStop ==
    \A i \in 1 .. Len(Published) :
        Published[i].ev.tune_override <=> (cmd = "stop")

\* A melody of fifty notes played to its end, none with the flag.
C16_Witness ==
    /\ Done
    /\ NotationPlay
    /\ Len(Published) = MAX_NOTE_ITERATION
    /\ ~Published[MAX_NOTE_ITERATION].ev.tune_override

(***************************************************************************)
(* C17: libtest never publishes and never creates the publish handle,      *)
(* whatever the compiler returns (an unrecognised tune id included), and   *)
(* its loop runs under the iteration check of notation playback, so it     *)
(* terminates for every event source.                                      *)
(***************************************************************************)
LibtestFrame ==
    (cmd' = "libtest") =>
        UNCHANGED << tune_control_pub, orb_queue, orb_queue_size,
                     orb_generation, advertised >>

C17_LibtestSilentAndBounded ==
    /\ [](cmd = "libtest" =>
             /\ Len(Published) = 0
             /\ tune_control_pub = nullptr
             /\ exit_counter <= MAX_NOTE_ITERATION + 1)
    /\ [][LibtestFrame]_vars
    /\ (pc = "libtest") ~> (Done /\ ret = 0)

\* An unrecognised tune id, then an endless source cut off by the check.
C17_Witness ==
    /\ Done
    /\ cmd = "libtest"
    /\ trace[1].arg = 0 - EINVAL
    /\ tunes.len = Endless
    /\ exit_counter = MAX_NOTE_ITERATION + 1
    /\ ret = 0

====
